---- MODULE Spec2Model ----
(***************************************************************************)
(* Path-command subsystem of empire-wallpaper (src/src/lib.rs): parsing of *)
(* one command token (Command::from_str), of a whole path text             *)
(* (Commands::from_str), bounds, normalize and emit.                       *)
(*                                                                         *)
(* A text is a sequence of one-character strings.  An f64 is a binary      *)
(* floating-point number with Precision significant bits (53 in the        *)
(* program), held as an integer count of 2^-FracBits units; every          *)
(* arithmetic result is rounded to nearest, ties to even, as IEEE-754      *)
(* does.  A pair (x, y) is the tuple <<x, y>>.                             *)
(***************************************************************************)
EXTENDS Integers, Sequences, FiniteSets, TLC

VARIABLES
    text,    \* the input: a path text, or one token
    rest,    \* Commands::from_str: the matches find_iter has yet to yield
    tok,     \* the token of the last call of Command::from_str
    penIn,   \* the pen position of that call
    cres,    \* the result of that call
    pt,      \* Commands::from_str: the local pt
    cmds,    \* Commands::from_str: the local cmds, then the parsed Commands
    pc,      \* the position in the run
    norm,    \* the Commands returned by the successive calls of normalize
    bnd,     \* the result of the last call of bounds
    ctx,     \* emit: the local ctx
    lines    \* emit: the lines printed so far

vars == <<text, rest, tok, penIn, cres, pt, cmds, pc, norm, bnd, ctx, lines>>

(***************************************************************************)
(* Bounds of the model.                                                    *)
(***************************************************************************)
Precision == 3       \* significant bits of a float
FracBits == 4        \* binary digits kept below the unit
MaxExponent == 12    \* exponent of the largest finite float
MaxTailLen == 3      \* length of the exhaustively enumerated argument tails
MaxFields == 6       \* numeric fields of the well-formed argument tails
MaxCmds == 3         \* command tokens of a path text
MaxPoints == 3       \* commands of a directly drawn sequence
MaxNormalize == 2    \* successive calls of normalize
MaxPad == 2          \* separators put before or after an argument tail

(***************************************************************************)
(* f64 arithmetic.                                                         *)
(***************************************************************************)
Pow2(n) == 2 ^ n

Unit == Pow2(FracBits)

Abs(n) == IF n < 0 THEN -n ELSE n

RECURSIVE BitLen(_)
BitLen(n) == IF n = 0 THEN 0 ELSE 1 + BitLen(n \div 2)

\* round to nearest, ties to even, keeping Precision significant bits
RoundF(n) ==
    LET a == Abs(n)
        e == BitLen(a) - Precision
    IN  IF e <= 0 THEN n
        ELSE LET q == Pow2(e)
                 m == a \div q
                 r == a - m * q
                 up == \/ 2 * r > q
                       \/ (2 * r = q /\ m % 2 = 1)
                 v == IF up THEN (m + 1) * q ELSE m * q
             IN  IF n < 0 THEN -v ELSE v

FAdd(a, b) == RoundF(a + b)

FSub(a, b) == RoundF(a - b)

FNeg(a) == -a

\* a / 2.0 with the division left out
FWhole(a) == a

\* a / 2.0: exact, unless a is an odd count of the smallest unit (underflow),
\* which no run below reaches
FHalf(a) ==
    IF a % 2 = 0 THEN a \div 2
    ELSE LET lo == (a - 1) \div 2 IN IF lo % 2 = 0 THEN lo ELSE lo + 1

FMin(a, b) == IF b < a THEN b ELSE a

FMax(a, b) == IF b > a THEN b ELSE a

F64MAX == (Pow2(Precision) - 1) * Pow2(MaxExponent)

F64MIN == -F64MAX

(***************************************************************************)
(* Characters and strings.                                                 *)
(***************************************************************************)
CodeChars == {"M", "m", "L", "l", "H", "h", "V", "v", "C", "c",
              "S", "s", "Q", "q", "T", "t", "A", "a", "Z", "z"}

WhiteSpace == {" ", "\t", "\n"}

IsSep(c) == c \in WhiteSpace \/ c = ","

DigitValue(c) ==
    CASE c = "0" -> 0 [] c = "1" -> 1 [] c = "2" -> 2 [] c = "3" -> 3
      [] c = "4" -> 4 [] c = "5" -> 5 [] c = "6" -> 6 [] c = "7" -> 7
      [] c = "8" -> 8 [] c = "9" -> 9 [] OTHER -> -1

IsDigit(c) == DigitValue(c) >= 0

RECURSIVE TrimStart(_)
TrimStart(s) ==
    IF s # <<>> /\ Head(s) \in WhiteSpace THEN TrimStart(Tail(s)) ELSE s

RECURSIVE TrimEnd(_)
TrimEnd(s) ==
    IF s # <<>> /\ s[Len(s)] \in WhiteSpace
    THEN TrimEnd(SubSeq(s, 1, Len(s) - 1)) ELSE s

\* str::trim, leaving the end of the string as it is
TrimStartOnly(s) == TrimStart(s)

\* str::trim
Trim(s) == TrimEnd(TrimStart(s))

\* index of the first character of s at or after i that is (sep = TRUE) or is
\* not (sep = FALSE) a separator; Len(s) + 1 when there is none
RECURSIVE Scan(_, _, _)
Scan(s, i, sep) ==
    IF i > Len(s) THEN i
    ELSE IF IsSep(s[i]) = sep THEN i
    ELSE Scan(s, i + 1, sep)

\* Regex::new(r"(\s|,)+").split(s): the substrings between the maximal runs of
\* separators, an empty one before a leading and after a trailing run
RECURSIVE Split(_)
Split(s) ==
    LET i == Scan(s, 1, TRUE)
    IN  IF i > Len(s) THEN <<s>>
        ELSE <<SubSeq(s, 1, i - 1)>>
                 \o Split(SubSeq(s, Scan(s, i, FALSE), Len(s)))

RECURSIVE DigitsValue(_, _)
DigitsValue(s, acc) ==
    IF s = <<>> THEN acc
    ELSE DigitsValue(Tail(s), 10 * acc + DigitValue(Head(s)))

AllDigits(s) == s # <<>> /\ \A i \in 1..Len(s) : IsDigit(s[i])

\* str::parse::<f64> on a field made of a sign and decimal digits, the literals
\* of the inputs below: the nearest float; no float on any other such field
ParseF64(s) ==
    LET signed == s # <<>> /\ Head(s) \in {"-", "+"}
        body == IF signed THEN Tail(s) ELSE s
        v == RoundF(DigitsValue(body, 0) * Unit)
    IN  IF AllDigits(body)
        THEN [ok |-> TRUE, val |-> IF signed /\ Head(s) = "-" THEN -v ELSE v]
        ELSE [ok |-> FALSE, val |-> 0]

(***************************************************************************)
(* Command.                                                                *)
(***************************************************************************)
Ok(cmd, args) == [tag |-> "Ok", cmd |-> cmd, args |-> args, msg |-> ""]

Err(msg) == [tag |-> "Err", cmd |-> "", args |-> <<>>, msg |-> msg]

Panic == [tag |-> "Panic", cmd |-> "", args |-> <<>>, msg |-> ""]

NoResult == [tag |-> "None", cmd |-> "", args |-> <<>>, msg |-> ""]

\* args.chunks(2).map(|x| (x[0], x[1])) on an even number of values
Chunks(a) == [i \in 1..(Len(a) \div 2) |-> <<a[2 * i - 1], a[2 * i]>>]

\* the codes a token may start with, without the codes that cannot be drawn
IsCommandCodeDrawable(c) == c \in CodeChars \ {"S", "s", "Q", "q", "T", "t", "A", "a"}

\* the codes a token may start with
IsCommandCode(c) == c \in CodeChars

\* Command::from_str(s, pt)
CommandFromStr(s, p) ==
    IF s = <<>> THEN Err("empty command")
    ELSE IF ~IsCommandCode(Head(s)) THEN Err("invalid command")
    ELSE LET cmd == Head(s)
             t == Trim(Tail(s))
             fields == Split(t)
             parsed == [i \in 1..Len(fields) |-> ParseF64(fields[i])]
             args == [i \in 1..Len(fields) |-> parsed[i].val]
         IN  IF t = <<>> THEN Ok(cmd, <<>>)
             ELSE IF \E i \in 1..Len(fields) : ~parsed[i].ok
                  THEN LET k == CHOOSE i \in 1..Len(fields) :
                                    /\ ~parsed[i].ok
                                    /\ \A j \in 1..(i - 1) : parsed[j].ok
                       IN  Err(IF fields[k] = <<>>
                               THEN "cannot parse float from empty string"
                               ELSE "invalid float literal")
             ELSE IF cmd = "H" THEN Ok("L", << <<args[1], p[2]>> >>)
             ELSE IF cmd = "V" THEN Ok("L", << <<p[1], args[1]>> >>)
             ELSE IF Len(args) % 2 = 1 THEN Panic
             ELSE Ok(cmd, Chunks(args))

\* Command::context, reading the first argument
ContextFirst(c) == IF c.args = <<>> THEN <<0, 0>> ELSE c.args[1]

\* Command::context
Context(c) == IF c.args = <<>> THEN <<0, 0>> ELSE c.args[Len(c.args)]

(***************************************************************************)
(* Commands.                                                               *)
(***************************************************************************)
NoBounds == <<>>

\* the coordinate pairs of every command, in order
RECURSIVE AllArgs(_)
AllArgs(cs) == IF cs = <<>> THEN <<>> ELSE Head(cs).args \o AllArgs(Tail(cs))

RECURSIVE BoundsFrom(_, _, _)
BoundsFrom(ps, tl, br) ==
    IF ps = <<>> THEN <<tl, br>>
    ELSE LET x == Head(ps)[1]
             y == Head(ps)[2]
         IN  BoundsFrom(Tail(ps),
                        <<FMin(tl[1], x), FMin(tl[2], y)>>,
                        <<FMax(br[1], x), FMax(br[2], y)>>)

\* the rectangle bounds starts from
BoundsStartZero == <<0, 0>>

BoundsStartTl == <<F64MAX, F64MAX>>

BoundsStartBr == <<F64MIN, F64MIN>>

\* Commands::bounds
Bounds(cs) == BoundsFrom(AllArgs(cs), BoundsStartTl, BoundsStartBr)

\* Command::translate, with the offset added the wrong way round
TranslateSub(c, tx, ty) ==
    [cmd |-> c.cmd,
     args |-> [i \in 1..Len(c.args) |->
                  <<FSub(c.args[i][1], tx), FSub(c.args[i][2], ty)>>]]

\* Command::translate
Translate(c, tx, ty) ==
    [cmd |-> c.cmd,
     args |-> [i \in 1..Len(c.args) |->
                  <<FAdd(c.args[i][1], tx), FAdd(c.args[i][2], ty)>>]]

\* Commands::normalize
Normalize(cs) ==
    LET b == Bounds(cs)
        tx == FSub(FNeg(b[1][1]), FHalf(FSub(b[2][1], b[1][1])))
        ty == FSub(FNeg(b[1][2]), FHalf(FSub(b[2][2], b[1][2])))
    IN  [i \in 1..Len(cs) |-> Translate(cs[i], tx, ty)]

\* format!("{:0.6}", v): v to six decimal places, as a count of millionths
Fmt6(v) ==
    LET a == Abs(v) * 1000000
        q == a \div Unit
        r == a - q * Unit
        n == IF 2 * r > Unit \/ (2 * r = Unit /\ q % 2 = 1) THEN q + 1 ELSE q
    IN  IF v < 0 THEN -n ELSE n

Line(op, nums, code) == [op |-> op, nums |-> nums, code |-> code]

Drawn(line, p) == [tag |-> "Ok", line |-> line, pt |-> p]

DrawPanic == [tag |-> "Panic", line |-> Line("", <<>>, ""), pt |-> <<0, 0>>]

\* Command::to_str
ToStr(c, p) ==
    LET a == c.args
        n == Len(a)
    IN  CASE c.cmd = "M" ->
               IF n < 1 THEN DrawPanic
               ELSE Drawn(Line("move_to", <<Fmt6(a[1][1]), Fmt6(a[1][2])>>, ""),
                          <<a[1][1], a[1][2]>>)
          [] c.cmd = "C" ->
               IF n < 3 THEN DrawPanic
               ELSE Drawn(Line("curve_to",
                               <<Fmt6(a[1][1]), Fmt6(a[1][2]), Fmt6(a[2][1]),
                                 Fmt6(a[2][2]), Fmt6(a[3][1]), Fmt6(a[3][2])>>, ""),
                          <<a[3][1], a[3][2]>>)
          [] c.cmd = "L" ->
               IF n < 1 THEN DrawPanic
               ELSE Drawn(Line("line_to", <<Fmt6(a[1][1]), Fmt6(a[1][2])>>, ""),
                          <<a[1][1], a[1][2]>>)
          [] c.cmd = "H" ->
               IF n < 1 THEN DrawPanic
               ELSE Drawn(Line("line_to", <<Fmt6(a[1][1]), Fmt6(p[2])>>, ""),
                          <<a[1][1], p[2]>>)
          [] c.cmd = "V" ->
               IF n < 1 THEN DrawPanic
               ELSE Drawn(Line("line_to", <<Fmt6(p[1]), Fmt6(a[1][2])>>, ""),
                          <<p[1], a[1][2]>>)
          [] c.cmd \in {"z", "Z"} -> Drawn(Line("close_path", <<>>, ""), <<0, 0>>)
          [] OTHER -> Drawn(Line("todo", <<>>, c.cmd), <<0, 0>>)

IsCode(c) == c \in CodeChars

\* index of the first character of s at or after i that is (code = TRUE) or is
\* not (code = FALSE) a command code; Len(s) + 1 when there is none
RECURSIVE ScanCode(_, _, _)
ScanCode(s, i, code) ==
    IF i > Len(s) THEN i
    ELSE IF IsCode(s[i]) = code THEN i
    ELSE ScanCode(s, i + 1, code)

\* Regex [MmLl..Zz][^MmLl..Zz]* find_iter: every command code with the text
\* that follows it up to the next code; the text before the first code is in
\* no match
RECURSIVE FindIter(_)
FindIter(s) ==
    LET i == ScanCode(s, 1, TRUE)
        j == ScanCode(s, i + 1, TRUE)
    IN  IF i > Len(s) THEN <<>>
        ELSE <<SubSeq(s, i, j - 1)>> \o FindIter(SubSeq(s, j, Len(s)))

\* the Commands a call acts on: the parsed one, or the last normalized copy
Cur == IF norm = <<>> THEN cmds ELSE norm[Len(norm)]

(***************************************************************************)
(* Inputs of one call of Command::from_str.                                *)
(***************************************************************************)
RECURSIVE Join(_, _)
Join(fs, sep) ==
    IF fs = <<>> THEN <<>>
    ELSE IF Len(fs) = 1 THEN fs[1]
    ELSE fs[1] \o sep \o Join(Tail(fs), sep)

Strings(chars, n) == UNION {[1..k -> chars] : k \in 0..n}

TailChars == {" ", ",", "1", "2", "-", "x"}

FirstChars == CodeChars \cup {"X", " "}

NumFields == {<<"1">>, <<"-", "2">>}

Separators == {<<" ">>, <<",">>, <<",", " ">>}

JoinedTails ==
    {Join(fs, sep) : fs \in Strings(NumFields, MaxFields), sep \in Separators}

\* tails that parse for some code, and the runs of separators put around them
Cores == {<<>>, <<"1">>, <<"1", " ", "2">>, <<"-", "2", ",", "1">>}

Pads == Strings({" ", ","}, MaxPad)

PaddedTails == {lead \o t \o trail : lead \in Pads, t \in Cores, trail \in Pads}

CmdTokens ==
    {<<>>} \cup {<<c>> \o t : c \in FirstChars,
                             t \in Strings(TailChars, MaxTailLen)
                                     \cup JoinedTails \cup PaddedTails}

Pens == {<<0, 0>>, <<3 * Unit, 5 * Unit>>}

InitCmd ==
    /\ tok \in CmdTokens
    /\ penIn \in Pens
    /\ text = tok
    /\ rest = <<>>
    /\ cres = NoResult
    /\ pt = penIn
    /\ cmds = <<>>
    /\ pc = "call"
    /\ norm = <<>>
    /\ bnd = NoBounds
    /\ ctx = <<0, 0>>
    /\ lines = <<>>

\* one call Command::from_str(tok, penIn)
CallCommandFromStr ==
    /\ pc = "call"
    /\ cres' = CommandFromStr(tok, penIn)
    /\ pc' = "returned"
    /\ UNCHANGED <<text, rest, tok, penIn, pt, cmds, norm, bnd, ctx, lines>>

NextCmd == CallCommandFromStr

SpecCmd == InitCmd /\ [][NextCmd]_vars

(***************************************************************************)
(* A run over a path text: Commands::from_str, then normalize and emit.    *)
(***************************************************************************)
Pieces ==
    {<<"M", "1", " ", "2">>,
     <<"L", "-", "2", " ", "7">>,
     <<"H", "7">>,
     <<"V", "-", "2">>,
     <<"C", "1", " ", "2", " ", "-", "2", " ", "7", " ", "7", " ", "1">>,
     <<"Z">>,
     <<"S", "1", " ", "2">>,
     <<"m", "1", ",", "2">>,
     <<"M">>,
     <<"L", "1">>,
     <<"L", "x">>,
     <<"h", "1">>,
     <<"Z", "1", " ", "2">>,
     <<"X">>}

RECURSIVE Concat(_)
Concat(ss) == IF ss = <<>> THEN <<>> ELSE Head(ss) \o Concat(Tail(ss))

Texts == {Concat(ps) : ps \in Strings(Pieces, MaxCmds)}

Command(r) == [cmd |-> r.cmd, args |-> r.args]

Init ==
    /\ text \in Texts
    /\ rest = FindIter(text)
    /\ tok = <<>>
    /\ penIn = <<0, 0>>
    /\ cres = NoResult
    /\ pt = <<0, 0>>
    /\ cmds = <<>>
    /\ pc = "parse"
    /\ norm = <<>>
    /\ bnd = NoBounds
    /\ ctx = <<0, 0>>
    /\ lines = <<>>

\* Commands::from_str: one turn of the loop over the matches
ParseToken ==
    /\ pc = "parse"
    /\ rest # <<>>
    /\ tok' = Head(rest)
    /\ penIn' = pt
    /\ cres' = CommandFromStr(Head(rest), pt)
    /\ rest' = Tail(rest)
    /\ IF cres'.tag = "Ok"
       THEN /\ pt' = Context(cres')
            /\ cmds' = Append(cmds, Command(cres'))
            /\ pc' = "parse"
       ELSE /\ pt' = pt
            /\ cmds' = <<>>
            /\ pc' = IF cres'.tag = "Err" THEN "err" ELSE "panic"
    /\ UNCHANGED <<text, norm, bnd, ctx, lines>>

\* Commands::from_str: Ok(Self { cmds }) after the last match
ParseReturn ==
    /\ pc = "parse"
    /\ rest = <<>>
    /\ pc' = "parsed"
    /\ UNCHANGED <<text, rest, tok, penIn, cres, pt, cmds, norm, bnd, ctx, lines>>

\* a call of bounds
CallBounds ==
    /\ pc = "parsed"
    /\ bnd = NoBounds
    /\ bnd' = Bounds(Cur)
    /\ UNCHANGED <<text, rest, tok, penIn, cres, pt, cmds, pc, norm, ctx, lines>>

\* a call of normalize
CallNormalize ==
    /\ pc = "parsed"
    /\ Len(norm) < MaxNormalize
    /\ norm' = Append(norm, Normalize(Cur))
    /\ bnd' = NoBounds
    /\ UNCHANGED <<text, rest, tok, penIn, cres, pt, cmds, pc, ctx, lines>>

\* a call of emit
CallEmit ==
    /\ pc = "parsed"
    /\ pc' = "emit"
    /\ ctx' = <<0, 0>>
    /\ lines' = <<>>
    /\ UNCHANGED <<text, rest, tok, penIn, cres, pt, cmds, norm, bnd>>

\* emit: one turn of the loop over the commands
EmitLine ==
    /\ pc = "emit"
    /\ Len(lines) < Len(Cur)
    /\ LET r == ToStr(Cur[Len(lines) + 1], <<ctx[1], ctx[2]>>)
       IN  IF r.tag = "Ok"
           THEN /\ lines' = Append(lines, r.line)
                /\ ctx' = r.pt
                /\ pc' = "emit"
           ELSE /\ pc' = "emit_panic"
                /\ UNCHANGED <<lines, ctx>>
    /\ UNCHANGED <<text, rest, tok, penIn, cres, pt, cmds, norm, bnd>>

\* emit returns after the last command
EmitReturn ==
    /\ pc = "emit"
    /\ Len(lines) = Len(Cur)
    /\ pc' = "emitted"
    /\ UNCHANGED <<text, rest, tok, penIn, cres, pt, cmds, norm, bnd, ctx, lines>>

Next ==
    \/ ParseToken
    \/ ParseReturn
    \/ CallNormalize
    \/ CallEmit
    \/ EmitLine
    \/ EmitReturn

Spec == Init /\ [][Next]_vars

(***************************************************************************)
(* Calls of bounds and normalize on a parsed Commands.                     *)
(***************************************************************************)
XCoords == {-8 * Unit, -5 * Unit, Unit}

YCoords == {-2 * Unit, 7 * Unit}

Points == XCoords \X YCoords

GeomCommands ==
    {[cmd |-> c, args |-> <<p>>] : c \in {"M", "L"}, p \in Points}
        \cup {[cmd |-> "C",
               args |-> << <<-5 * Unit, 7 * Unit>>, <<Unit, -2 * Unit>>,
                           <<-8 * Unit, -2 * Unit>> >>]}
        \cup {[cmd |-> "Z", args |-> <<>>]}

InitGeom ==
    /\ cmds \in Strings(GeomCommands, MaxPoints)
    /\ text = <<>>
    /\ rest = <<>>
    /\ tok = <<>>
    /\ penIn = <<0, 0>>
    /\ cres = NoResult
    /\ pt = <<0, 0>>
    /\ pc = "parsed"
    /\ norm = <<>>
    /\ bnd = NoBounds
    /\ ctx = <<0, 0>>
    /\ lines = <<>>

NextGeom ==
    \/ CallBounds
    \/ CallNormalize

SpecGeom == InitGeom /\ [][NextGeom]_vars

(***************************************************************************)
(* Vocabulary of the claims about one token.                               *)
(***************************************************************************)
TokCode == IF tok = <<>> THEN "" ELSE Head(tok)

\* the whitespace/comma-delimited fields of the token's argument tail
TokFields ==
    IF tok = <<>> \/ Trim(Tail(tok)) = <<>> THEN <<>> ELSE Split(Trim(Tail(tok)))

TokAllNumeric == \A i \in 1..Len(TokFields) : ParseF64(TokFields[i]).ok

TokValue(i) == ParseF64(TokFields[i]).val

Returned == pc = "returned"

Unsupported == {"S", "s", "Q", "q", "T", "t", "A", "a"}

\* the number of coordinate pairs the kind of a command requires
Arity(c) ==
    CASE c \in {"Z", "z"} -> 0
      [] c \in {"M", "m", "L", "l", "H", "h", "V", "v"} -> 1
      [] c \in {"C", "c"} -> 3
      [] OTHER -> 0

HasArity(c) == c \in {"Z", "z", "M", "m", "L", "l", "H", "h", "V", "v", "C", "c"}

\* C1: a token H/h with exactly one number x parses to LineTo (x, pen.y), and a
\* token V/v with exactly one number y parses to LineTo (pen.x, y).
C1_AxisLineTo ==
    Returned /\ Len(TokFields) = 1 /\ TokAllNumeric =>
        /\ TokCode \in {"H", "h"} =>
               cres = Ok("L", << <<TokValue(1), penIn[2]>> >>)
        /\ TokCode \in {"V", "v"} =>
               cres = Ok("L", << <<penIn[1], TokValue(1)>> >>)

\* C2: a token whose code is not H/h/V/v and whose tail holds an odd number of
\* numeric fields is a decode failure: an error value, no panic, no Command.
C2_OddCountFails ==
    Returned /\ TokCode \notin {"H", "h", "V", "v"} /\ tok # <<>>
        /\ TokAllNumeric /\ Len(TokFields) % 2 = 1
    => cres.tag = "Err"

\* C3: a returned Command holds as many pairs as the arity of its kind; a token
\* whose pair count differs is a decode failure, not a panic; an empty tail is
\* accepted only for Z/z; C with four numbers fails, C with six has three pairs.
C3_ArityOfKind ==
    Returned =>
        /\ cres.tag = "Ok" /\ HasArity(cres.cmd) =>
               Len(cres.args) = Arity(cres.cmd)
        /\ HasArity(TokCode) /\ TokAllNumeric
               /\ TokCode \notin {"H", "h", "V", "v"}
               /\ Len(TokFields) # 2 * Arity(TokCode) => cres.tag = "Err"
        /\ TokFields = <<>> /\ cres.tag = "Ok" => TokCode \in {"Z", "z"}
        /\ TokCode = "C" /\ TokAllNumeric /\ Len(TokFields) = 4 =>
               cres.tag = "Err"
        /\ TokCode = "C" /\ TokAllNumeric /\ Len(TokFields) = 6 =>
               cres.tag = "Ok" /\ Len(cres.args) = 3

\* a token that is empty, starts with no command code, or has a field that is
\* no float
Malformed ==
    \/ tok = <<>>
    \/ ~(TokCode \in CodeChars)
    \/ ~TokAllNumeric

\* C4 as stated: a malformed token is a decode failure, and a token S/Q/T/A
\* with well-formed numbers parses successfully.
C4_AsStated ==
    Returned =>
        /\ Malformed => cres.tag = "Err"
        /\ TokCode \in Unsupported /\ TokAllNumeric => cres.tag = "Ok"

\* C4, amended: a malformed token is a decode failure, and a token S/Q/T/A with
\* an even number of well-formed numbers parses successfully, keeping its code
\* and its numbers paired in input order.
C4_DecodeFailures ==
    Returned =>
        /\ Malformed => cres.tag = "Err"
        /\ TokCode \in Unsupported /\ TokAllNumeric /\ Len(TokFields) % 2 = 0 =>
               /\ cres.tag = "Ok"
               /\ cres.cmd = TokCode
               /\ Len(cres.args) = Len(TokFields) \div 2
               /\ \A i \in 1..Len(cres.args) :
                      cres.args[i] = <<TokValue(2 * i - 1), TokValue(2 * i)>>

C4_Witness ==
    /\ Returned
    /\ TokCode = "S"
    /\ Len(TokFields) = 4
    /\ cres.tag = "Ok"
    /\ Len(cres.args) = 2

(***************************************************************************)
(* Vocabulary of the claims about a path text.                             *)
(***************************************************************************)
Matches == FindIter(text)

FieldsOf(t) == IF Trim(Tail(t)) = <<>> THEN <<>> ELSE Split(Trim(Tail(t)))

NumericFields(t) == \A i \in 1..Len(FieldsOf(t)) : ParseF64(FieldsOf(t)[i]).ok

\* the number of numeric fields the code of a token requires
ArityHolds(t) ==
    LET c == Head(t)
        n == Len(FieldsOf(t))
    IN  IF c \in {"H", "h", "V", "v"} THEN n = 1
        ELSE IF HasArity(c) THEN n = 2 * Arity(c)
        ELSE n % 2 = 0

\* a part of the text that is no valid command: text before the first command
\* code, a field that is no number, or a wrong number of fields
MalformedAt(i) == ~NumericFields(Matches[i]) \/ ~ArityHolds(Matches[i])

JunkBeforeFirstCode ==
    LET i == ScanCode(text, 1, TRUE)
    IN  \E k \in 1..(i - 1) : k <= Len(text) /\ text[k] \notin WhiteSpace

TextMalformed == JunkBeforeFirstCode \/ \E i \in 1..Len(Matches) : MalformedAt(i)

\* C5: a text with a malformed command makes the whole parse return the first
\* error in left-to-right order and no sequence; a sequence is returned only
\* when every part of the text parsed as a valid command.
C5_NoPartialSuccess ==
    /\ pc # "panic"
    /\ pc = "parsed" => ~TextMalformed
    /\ pc = "err" =>
           /\ cres.tag = "Err"
           /\ cmds = <<>>
           /\ \E i \in 1..Len(Matches) :
                  /\ tok = Matches[i]
                  /\ MalformedAt(i)
                  /\ \A j \in 1..(i - 1) : ~MalformedAt(j)

LastArg(c) == c.args[Len(c.args)]

\* the pen after a command, as C6 states it
PenAsStated(c, p) ==
    /\ c.cmd \in {"M", "m", "L", "l", "C", "c"} /\ c.args # <<>> => p = LastArg(c)
    /\ c.cmd \in {"Z", "z"} => p = <<0, 0>>
    /\ c.cmd \in Unsupported => p = <<0, 0>>

\* the pen after a command: its last argument, the origin when it has none
PenAfter(c, p) == p = IF c.args # <<>> THEN LastArg(c) ELSE <<0, 0>>

\* the tokens are taken in input order, the parsed commands kept in that order
InInputOrder ==
    /\ Len(cmds) + Len(rest) = Len(Matches)
    /\ rest = SubSeq(Matches, Len(cmds) + 1, Len(Matches))
    /\ cmds # <<>> => tok = Matches[Len(cmds)] /\ cmds[Len(cmds)] = Command(cres)

\* C6 as stated: the pen starts at (0,0), tokens are parsed in input order, and
\* the pen fed to the next parse is the last argument after MoveTo, LineTo and
\* CubicCurveTo, (0,0) after ClosePath and (0,0) after S, Q, T, A.
C6_AsStated ==
    pc = "parse" =>
        /\ InInputOrder
        /\ cmds = <<>> => pt = <<0, 0>>
        /\ cmds # <<>> => PenAsStated(cmds[Len(cmds)], pt)
        /\ Len(cmds) = 1 => penIn = <<0, 0>>
        /\ Len(cmds) > 1 => PenAsStated(cmds[Len(cmds) - 1], penIn)

\* C6, amended: the pen starts at (0,0), tokens are parsed in input order, and
\* the pen fed to the next parse is the last argument of the command just
\* parsed, whatever its kind, and (0,0) when that command has no argument.
C6_PenThreading ==
    pc = "parse" =>
        /\ InInputOrder
        /\ cmds = <<>> => pt = <<0, 0>>
        /\ cmds # <<>> => PenAfter(cmds[Len(cmds)], pt)
        /\ Len(cmds) = 1 => penIn = <<0, 0>>
        /\ Len(cmds) > 1 => PenAfter(cmds[Len(cmds) - 1], penIn)

C6_Witness ==
    /\ pc = "parse"
    /\ Len(cmds) = 2
    /\ cmds[1].cmd = "S"
    /\ Head(tok) = "H"
    /\ penIn = <<Unit, 2 * Unit>>
    /\ cmds[2] = [cmd |-> "L", args |-> << <<7 * Unit, 2 * Unit>> >>]

\* the pen before the i-th command of an emitted sequence, by the table of C7
RECURSIVE PenBefore(_, _)
PenBefore(cs, i) ==
    IF i = 1 THEN <<0, 0>>
    ELSE LET c == cs[i - 1]
             p == PenBefore(cs, i - 1)
         IN  CASE c.cmd \in {"M", "L"} -> c.args[1]
               [] c.cmd = "H" -> <<c.args[1][1], p[2]>>
               [] c.cmd = "V" -> <<p[1], c.args[1][2]>>
               [] c.cmd = "C" -> c.args[3]
               [] OTHER -> <<0, 0>>

\* the instruction of command c with the pen at p, by the table of C7
Instruction(c, p) ==
    CASE c.cmd = "M" -> Line("move_to", <<Fmt6(c.args[1][1]), Fmt6(c.args[1][2])>>, "")
      [] c.cmd = "L" -> Line("line_to", <<Fmt6(c.args[1][1]), Fmt6(c.args[1][2])>>, "")
      [] c.cmd = "H" -> Line("line_to", <<Fmt6(c.args[1][1]), Fmt6(p[2])>>, "")
      [] c.cmd = "V" -> Line("line_to", <<Fmt6(p[1]), Fmt6(c.args[1][2])>>, "")
      [] c.cmd = "C" ->
           Line("curve_to", [k \in 1..6 |-> Fmt6(c.args[(k + 1) \div 2][2 - (k % 2)])], "")
      [] c.cmd \in {"Z", "z"} -> Line("close_path", <<>>, "")
      [] OTHER -> Line("todo", <<>>, c.cmd)

\* C7: emission walks the sequence in order from pen (0,0), prints exactly one
\* instruction per command by the table of kinds, and completes without
\* failure on every parsed sequence.
C7_Emission ==
    /\ pc # "emit_panic"
    /\ pc \in {"emit", "emitted"} =>
           /\ Len(lines) <= Len(Cur)
           /\ \A i \in 1..Len(lines) :
                  lines[i] = Instruction(Cur[i], PenBefore(Cur, i))
           /\ ctx = PenBefore(Cur, Len(lines) + 1)
    /\ pc = "emitted" => Len(lines) = Len(Cur)

(***************************************************************************)
(* Vocabulary of the claims about bounds and normalize.                    *)
(***************************************************************************)
CoordsOf(cs) ==
    UNION {{cs[i].args[j] : j \in 1..Len(cs[i].args)} : i \in 1..Len(cs)}

Xs(cs) == {p[1] : p \in CoordsOf(cs)}

Ys(cs) == {p[2] : p \in CoordsOf(cs)}

Least(S) == CHOOSE v \in S : \A w \in S : v <= w

Greatest(S) == CHOOSE v \in S : \A w \in S : v >= w

\* C8: bounds returns the tightest rectangle around every coordinate argument,
\* each of its four extremes attained by an argument; with no coordinate
\* argument it returns the sentinel: min the largest value, max the smallest.
C8_Bounds ==
    bnd # NoBounds =>
        IF CoordsOf(Cur) # {}
        THEN /\ \A p \in CoordsOf(Cur) :
                    /\ bnd[1][1] <= p[1] /\ p[1] <= bnd[2][1]
                    /\ bnd[1][2] <= p[2] /\ p[2] <= bnd[2][2]
             /\ \E p \in CoordsOf(Cur) : p[1] = bnd[1][1]
             /\ \E p \in CoordsOf(Cur) : p[2] = bnd[1][2]
             /\ \E p \in CoordsOf(Cur) : p[1] = bnd[2][1]
             /\ \E p \in CoordsOf(Cur) : p[2] = bnd[2][2]
        ELSE /\ bnd = << <<F64MAX, F64MAX>>, <<F64MIN, F64MIN>> >>
             /\ bnd[1][1] > bnd[2][1]
             /\ bnd[1][2] > bnd[2][2]

C8_Witness ==
    /\ bnd # NoBounds
    /\ Cardinality(CoordsOf(Cur)) = 3
    /\ bnd = << <<-8 * Unit, -2 * Unit>>, <<Unit, 7 * Unit>> >>

\* the source of the k-th call of normalize
Source(k) == IF k = 1 THEN cmds ELSE norm[k - 1]

\* the offset normalize adds on an axis whose coordinates are the set S
Offset(S) == FSub(FNeg(Least(S)), FHalf(FSub(Greatest(S), Least(S))))

\* the distance between neighbouring floats at magnitude m
Ulp(m) == IF BitLen(m) <= Precision THEN 1 ELSE Pow2(BitLen(m) - Precision)

\* the floating-point tolerance on an axis whose source coordinates are S
Tolerance(S) == 3 * Ulp(Greatest({Abs(v) : v \in S}))

Width(S) == Greatest(S) - Least(S)

Within(a, b, tol) == Abs(a - b) <= tol

\* C9 as stated: the bounds of normalize are symmetric about the origin, with
\* the original width and height, and normalizing twice gives the coordinates
\* of normalizing once.
C9_AsStated ==
    \A k \in 1..Len(norm) :
        CoordsOf(Source(k)) # {} =>
            LET b == Bounds(norm[k])
            IN  /\ b[1][1] = -b[2][1]
                /\ b[1][2] = -b[2][2]
                /\ b[2][1] - b[1][1] = Width(Xs(Source(k)))
                /\ b[2][2] - b[1][2] = Width(Ys(Source(k)))
                /\ k > 1 => norm[k] = norm[k - 1]

\* C9, amended: the bounds of normalize are symmetric about the origin within
\* floating-point tolerance (three units in the last place of the largest
\* source coordinate of the axis), with the original width and height within
\* that tolerance, and normalizing twice moves no coordinate further than that
\* from normalizing once.
C9_NormalizeCentered ==
    \A k \in 1..Len(norm) :
        CoordsOf(Source(k)) # {} =>
            LET b == Bounds(norm[k])
                tx == Tolerance(Xs(Source(k)))
                ty == Tolerance(Ys(Source(k)))
            IN  /\ Within(b[1][1], -b[2][1], tx)
                /\ Within(b[1][2], -b[2][2], ty)
                /\ Within(b[2][1] - b[1][1], Width(Xs(Source(k))), tx)
                /\ Within(b[2][2] - b[1][2], Width(Ys(Source(k))), ty)
                /\ k > 1 =>
                       /\ Len(norm[k]) = Len(norm[k - 1])
                       /\ \A i \in 1..Len(norm[k]) :
                              /\ norm[k][i].cmd = norm[k - 1][i].cmd
                              /\ Len(norm[k][i].args) = Len(norm[k - 1][i].args)
                              /\ \A j \in 1..Len(norm[k][i].args) :
                                     /\ Within(norm[k][i].args[j][1],
                                               norm[k - 1][i].args[j][1],
                                               Tolerance(Xs(Source(k - 1))))
                                     /\ Within(norm[k][i].args[j][2],
                                               norm[k - 1][i].args[j][2],
                                               Tolerance(Ys(Source(k - 1))))

\* normalized twice, the first result off centre and the second one moved
C9_Witness ==
    /\ Len(norm) = 2
    /\ Xs(cmds) = {-8 * Unit, -5 * Unit}
    /\ Xs(norm[1]) = {-2 * Unit, Unit}
    /\ Xs(norm[2]) = {(-3 * Unit) \div 2, (3 * Unit) \div 2}

\* C10: normalize returns a sequence with the same commands, kinds and argument
\* counts, every coordinate shifted by tx = -min_x - width/2 and
\* ty = -min_y - height/2, and leaves the source sequence unchanged.
C10_Shifted ==
    \A k \in 1..Len(norm) :
        /\ Len(norm[k]) = Len(Source(k))
        /\ \A i \in 1..Len(norm[k]) :
               /\ norm[k][i].cmd = Source(k)[i].cmd
               /\ Len(norm[k][i].args) = Len(Source(k)[i].args)
               /\ \A j \in 1..Len(norm[k][i].args) :
                      /\ norm[k][i].args[j][1] =
                             FAdd(Source(k)[i].args[j][1], Offset(Xs(Source(k))))
                      /\ norm[k][i].args[j][2] =
                             FAdd(Source(k)[i].args[j][2], Offset(Ys(Source(k))))

C10_SourceKept ==
    /\ cmds' = cmds
    /\ \A k \in 1..Len(norm) : Len(norm') >= k /\ norm'[k] = norm[k]

\* C10: the shift holds of every result of normalize, and no step changes the
\* source sequence or an earlier result.
C10_Normalize == [](C10_Shifted) /\ [][C10_SourceKept]_vars

C10_Witness ==
    /\ Len(norm) = 1
    /\ cmds = <<[cmd |-> "M", args |-> << <<Unit, 7 * Unit>> >>],
                [cmd |-> "L", args |-> << <<-8 * Unit, -2 * Unit>> >>],
                [cmd |-> "Z", args |-> <<>>]>>
    /\ norm[1] = <<[cmd |-> "M", args |-> << <<5 * Unit, 5 * Unit>> >>],
                   [cmd |-> "L", args |-> << <<-4 * Unit, -4 * Unit>> >>],
                   [cmd |-> "Z", args |-> <<>>]>>

(***************************************************************************)
(* Upper-case and lower-case codes.                                        *)
(***************************************************************************)
\* the upper-case letter of a drawable command code
Upper(c) ==
    CASE c = "m" -> "M" [] c = "l" -> "L" [] c = "h" -> "H"
      [] c = "v" -> "V" [] c = "c" -> "C" [] c = "z" -> "Z" [] OTHER -> c

\* the token with its code letter in upper case
UpperTok == IF tok = <<>> THEN tok ELSE <<Upper(Head(tok))>> \o Tail(tok)

\* two outcomes of Command::from_str that differ at most in the case of the
\* code letter, and whose commands emit the same instruction and leave the
\* same pen position
SameOutcome(a, b) ==
    /\ a.tag = b.tag
    /\ a.tag = "Ok" =>
           /\ Upper(a.cmd) = Upper(b.cmd)
           /\ a.args = b.args
           /\ ToStr(a, penIn) = ToStr(b, penIn)

\* C11: for every code among m, l, h, v, c, z, every tail and every pen,
\* parsing the lower-case token gives the outcome of parsing the upper-case
\* token (success or failure, kind, coordinates), and emitting the command
\* gives the same instruction and the same new pen position.
C11_CaseInsensitive ==
    (Returned /\ TokCode \in {"m", "l", "h", "v", "c", "z"}) =>
        SameOutcome(cres, CommandFromStr(UpperTok, penIn))

(***************************************************************************)
(* Separators around and inside the argument tail.                         *)
(***************************************************************************)
TokTail == IF tok = <<>> THEN <<>> ELSE Tail(tok)

\* the first a and the last b characters of the tail are separators, a + b > 0
IsPadding(a, b) ==
    LET n == Len(TokTail)
    IN  /\ a + b > 0
        /\ a + b <= n
        /\ \A i \in 1..a : IsSep(TokTail[i])
        /\ \A i \in (n - b + 1)..n : IsSep(TokTail[i])

\* that padding is whitespace only
IsWhitePadding(a, b) ==
    LET n == Len(TokTail)
    IN  /\ \A i \in 1..a : TokTail[i] \in WhiteSpace
        /\ \A i \in (n - b + 1)..n : TokTail[i] \in WhiteSpace

\* the outcome for the token without that padding
Unpadded(a, b) ==
    CommandFromStr(<<TokCode>> \o SubSeq(TokTail, a + 1, Len(TokTail) - b), penIn)

\* C12 as stated: a token made of a successfully parsing token by putting
\* whitespace or commas before or after its tail parses to the same command
\* and coordinates.
C12_AsStated ==
    (Returned /\ tok # <<>>) =>
        \A a, b \in 0..MaxPad :
            (IsPadding(a, b) /\ Unpadded(a, b).tag = "Ok") => cres = Unpadded(a, b)

\* the token with every run of separators between two fields made one space
OneSpaced == <<TokCode>> \o Join(TokFields, <<" ">>)

\* C12: whitespace put before or after the tail of a successfully parsing
\* token leaves the outcome as it is, a comma in that padding makes the parse
\* fail on an empty field, and a run of whitespace and commas between two
\* fields counts as one separator.
C12_Separators ==
    (Returned /\ tok # <<>>) =>
        /\ \A a, b \in 0..MaxPad :
               (IsPadding(a, b) /\ Unpadded(a, b).tag = "Ok") =>
                   IF IsWhitePadding(a, b)
                   THEN cres = Unpadded(a, b)
                   ELSE cres = Err("cannot parse float from empty string")
        /\ (\A i \in 1..Len(TokFields) : TokFields[i] # <<>>) =>
               cres = CommandFromStr(OneSpaced, penIn)

C12_Witness ==
    /\ Returned
    /\ tok = <<"M", " ", "1", " ", "2", " ">>
    /\ penIn = <<0, 0>>
    /\ cres = Ok("M", << <<Unit, 2 * Unit>> >>)

====
